---- MODULE Spec2Model ----
(***************************************************************************)
(* Model of backend/main.py, the Wrangling Game API: the rubric scorer     *)
(* score_answer over the CHALLENGES catalog, the catalog routes get_level  *)
(* and submit_level, and the persistence routes seed_levels, get_levels    *)
(* and db_check running against one shared PostgreSQL database.            *)
(*                                                                         *)
(* Python strings that the code inspects character by character (answers   *)
(* and must_have patterns) are sequences of one-character strings.         *)
(***************************************************************************)
EXTENDS Integers, Sequences, FiniteSets, TLC

VARIABLES level_number, answer, resp,
          engine, pc, tbl, rows, seq, sresp, calls

vars == <<level_number, answer, resp, engine, pc, tbl, rows, seq, sresp, calls>>

scoreVars == <<level_number, answer, resp>>

dbVars == <<engine, pc, tbl, rows, seq, sresp, calls>>

----------------------------------------------------------------------------
(* Bounds of the model.                                                    *)

\* an answer is a concatenation of at most MaxTokens vocabulary tokens
MaxTokens == 4

\* level numbers requested range over -1..MaxLevelInput
MaxLevelInput == 9

\* number of request workers / service instances sharing the database
NumInstances == 2

\* total number of POST /seed requests accepted in one behaviour
MaxSeedCalls == 3

----------------------------------------------------------------------------
(* CHALLENGES: the must_have patterns of the seven catalog entries.        *)

MustHave1 ==
    << <<"m","i","s","s","i","n","g">>,
       <<"d","u","p","l","i","c","a","t","e">>,
       <<"t","y","p","e","|","d","t","y","p","e","|","d","a","t","e","t","y","p","e","|","r","a","n","g","e","|","o","u","t","l","i","e","r">> >>
MustHave2 ==
    << <<"m","i","s","s","i","n","g","|","n","u","l","l","|","n","a","n">>,
       <<"d","u","p","l","i","c","a","t","e","|","d","e","d","u","p">>,
       <<"i","m","p","u","t","e","|","f","i","l","l","|","m","e","d","i","a","n","|","m","e","a","n","|","d","r","o","p">> >>
MustHave3 ==
    << <<"l","o","c">>,
       <<"c","o","p","y","|","S","e","t","t","i","n","g","W","i","t","h","C","o","p","y">> >>
MustHave4 ==
    << <<"t","o","_","d","a","t","e","t","i","m","e">>,
       <<"e","r","r","o","r","s","|","c","o","e","r","c","e">> >>
MustHave5 ==
    << <<"k","e","y">>,
       <<"u","n","i","q","u","e","|","u","n","i","q","u","e","n","e","s","s">>,
       <<"c","a","r","d","i","n","a","l","i","t","y","|","d","u","p","l","i","c","a","t","e">> >>
MustHave6 ==
    << <<"p","i","v","o","t">>,
       <<"m","e","l","t","|","s","t","a","c","k","|","u","n","s","t","a","c","k">>,
       <<"w","i","d","e","|","l","o","n","g">> >>
MustHave7 ==
    << <<"v","a","l","i","d","a","t","e","|","s","c","h","e","m","a">>,
       <<"c","l","e","a","n">>,
       <<"t","r","a","n","s","f","o","r","m">>,
       <<"q","a","|","c","h","e","c","k","|","t","e","s","t">> >>

CHALLENGES ==
    [n \in 1..7 |->
        [must_have |-> CASE n = 1 -> MustHave1 [] n = 2 -> MustHave2
                         [] n = 3 -> MustHave3 [] n = 4 -> MustHave4
                         [] n = 5 -> MustHave5 [] n = 6 -> MustHave6
                         [] n = 7 -> MustHave7]]

----------------------------------------------------------------------------
(* Answer texts: concatenations of tokens. The tokens carry upper-case     *)
(* letters, inner, leading and trailing whitespace, and filler.            *)

TokMissing ==
    <<"M","i","s","s","i","n","g"," ">>
TokDuplicate ==
    <<"D","U","P","L","I","C","A","T","E"," ","k","e","y">>
TokClean ==
    <<"v","a","l","i","d","a","t","e"," ","c","l","e","a","n"," ","l","o","c"," ","c","o","p","y">>
TokDatetime ==
    <<"t","o","_","d","a","t","e","t","i","m","e"," ","c","o","e","r","c","e"," ","P","i","v","o","t"," ","m","e","l","t">>
TokSpace ==
    <<" ","\n">>
TokFiller ==
    <<"x","x","x","x","x","x","x","x","x","x","x","x","x","x","x","x","x">>

Vocab ==
    {TokMissing, TokDuplicate, TokClean, TokDatetime, TokSpace, TokFiller}

TokenSeqs ==
    UNION {[1..n -> Vocab] : n \in 0..MaxTokens}

RECURSIVE Flatten(_)
Flatten(ts) ==
    IF ts = <<>> THEN <<>> ELSE Head(ts) \o Flatten(Tail(ts))

Answers ==
    {Flatten(ts) : ts \in TokenSeqs}

LevelInputs ==
    (-1)..MaxLevelInput

----------------------------------------------------------------------------
(* Python string and regex primitives used by score_answer.                *)

\* str.strip() with no argument removes these (those in the alphabet)
Whitespace ==
    {" ", "\n"}

RECURSIVE LStrip(_)
LStrip(s) ==
    IF s # <<>> /\ Head(s) \in Whitespace THEN LStrip(Tail(s)) ELSE s

RECURSIVE RStrip(_)
RStrip(s) ==
    IF s # <<>> /\ s[Len(s)] \in Whitespace
    THEN RStrip(SubSeq(s, 1, Len(s) - 1))
    ELSE s

StripLeftOnly(s) ==
    LStrip(s)

Strip(s) ==
    RStrip(LStrip(s))

\* re.IGNORECASE: both the pattern and the text are compared case-folded
ToLower ==
    ("A" :> "a") @@ ("B" :> "b") @@ ("C" :> "c") @@ ("D" :> "d") @@
    ("E" :> "e") @@ ("F" :> "f") @@ ("G" :> "g") @@ ("H" :> "h") @@
    ("I" :> "i") @@ ("J" :> "j") @@ ("K" :> "k") @@ ("L" :> "l") @@
    ("M" :> "m") @@ ("N" :> "n") @@ ("O" :> "o") @@ ("P" :> "p") @@
    ("Q" :> "q") @@ ("R" :> "r") @@ ("S" :> "s") @@ ("T" :> "t") @@
    ("U" :> "u") @@ ("V" :> "v") @@ ("W" :> "w") @@ ("X" :> "x") @@
    ("Y" :> "y") @@ ("Z" :> "z")

Fold(s) ==
    [i \in 1..Len(s) |-> IF s[i] \in DOMAIN ToLower THEN ToLower[s[i]] ELSE s[i]]

\* the alternatives of a pattern: its pieces between "|" characters
RECURSIVE SplitAlt(_)
SplitAlt(p) ==
    IF \A i \in 1..Len(p) : p[i] # "|"
    THEN <<p>>
    ELSE LET k == CHOOSE i \in 1..Len(p) :
                      p[i] = "|" /\ \A j \in 1..(i - 1) : p[j] # "|"
         IN  <<SubSeq(p, 1, k - 1)>> \o SplitAlt(SubSeq(p, k + 1, Len(p)))

\* the literal lit occurs somewhere in s (unanchored match)
Occurs(lit, s) ==
    \E i \in 1..(Len(s) - Len(lit) + 1) :
        \A j \in 1..Len(lit) : s[i + j - 1] = lit[j]

\* re.search(p, s, flags=re.IGNORECASE) is not None, for patterns that are
\* alternations of literals (all must_have patterns are)
ReSearch(p, s) ==
    LET alts == SplitAlt(Fold(p))
        text == Fold(s)
    IN  \E a \in 1..Len(alts) : Occurs(alts[a], text)

----------------------------------------------------------------------------
(* score_answer                                                            *)

MsgShort(min_len) ==
    <<"Answer is a bit short. Aim for at least", min_len, "characters.">>

MsgMore ==
    <<"Mention a few more key concepts from the hint/goal.">>

MsgNice ==
    <<"Nice - you covered the key ideas for this level.">>

MinLen(n) ==
    IF n \in {2, 7} THEN 40 ELSE 25

LongEnoughFlipped(a, min_len) ==
    Len(Strip(a)) <= min_len

LongEnough(a, min_len) ==
    Len(Strip(a)) >= min_len

Max(a, b) ==
    IF a >= b THEN a ELSE b

RequiredHitsNoFloor(patterns) ==
    (Len(patterns) + 1) \div 2

RequiredHits(patterns) ==
    Max(2, (Len(patterns) + 1) \div 2)

PassedEither(hits, required_hits, long_enough) ==
    (hits >= required_hits) \/ long_enough

Passed(hits, required_hits, long_enough) ==
    (hits >= required_hits) /\ long_enough

FeedbackOnHits(long_enough, min_len, hits, required_hits, passed) ==
    (IF ~long_enough THEN <<MsgShort(min_len)>> ELSE <<>>)
    \o (IF hits < required_hits THEN <<MsgMore>> ELSE <<>>)
    \o (IF hits >= required_hits THEN <<MsgNice>> ELSE <<>>)

Feedback(long_enough, min_len, hits, required_hits, passed) ==
    (IF ~long_enough THEN <<MsgShort(min_len)>> ELSE <<>>)
    \o (IF hits < required_hits THEN <<MsgMore>> ELSE <<>>)
    \o (IF passed THEN <<MsgNice>> ELSE <<>>)

score_answer(n, a) ==
    LET challenge == CHALLENGES[n]
        patterns == challenge.must_have
        hit_patterns == SelectSeq(patterns, LAMBDA p : ReSearch(p, a))
        hits == Len(hit_patterns)
        min_len == MinLen(n)
        long_enough == LongEnough(a, min_len)
        required_hits == RequiredHits(patterns)
        passed == Passed(hits, required_hits, long_enough)
        feedback == Feedback(long_enough, min_len, hits, required_hits, passed)
    IN  [passed |-> passed,
         hits |-> hits,
         required_hits |-> required_hits,
         matched |-> hit_patterns,
         feedback |-> feedback]

----------------------------------------------------------------------------
(* Catalog routes. resp is the HTTP response of the last request.          *)

NoResp ==
    [route |-> "none"]

NotFound(route) ==
    [route |-> route, status |-> 404, detail |-> "Level not found"]

InCatalogShort(n) ==
    n \in 1..6

InCatalog(n) ==
    n \in DOMAIN CHALLENGES

\* GET /levels/{level_number}
get_level ==
    /\ resp' = IF ~InCatalog(level_number)
               THEN NotFound("get_level")
               ELSE [route |-> "get_level", status |-> 200,
                     body |-> [level_number |-> level_number,
                               must_have |-> CHALLENGES[level_number].must_have]]
    /\ UNCHANGED <<level_number, answer>>
    /\ UNCHANGED dbVars

\* POST /levels/{level_number}/submit
submit_level ==
    /\ resp' = IF ~InCatalog(level_number)
               THEN NotFound("submit_level")
               ELSE LET result == score_answer(level_number, answer)
                    IN  [route |-> "submit_level", status |-> 200,
                         body |-> [level_number |-> level_number,
                                   passed |-> result.passed,
                                   hits |-> result.hits,
                                   required_hits |-> result.required_hits,
                                   feedback |-> result.feedback]]
    /\ UNCHANGED <<level_number, answer>>
    /\ UNCHANGED dbVars

----------------------------------------------------------------------------
(* Persistence routes. Each instance i is a service instance with its own  *)
(* engine handle; all configured instances share one PostgreSQL database.  *)
(*   tbl   the levels relation in the system catalog: committed, or        *)
(*         created by a transaction (creator) that has not committed yet   *)
(*   rows  the tuples of levels; xid = 0 once committed, otherwise the     *)
(*         instance whose open transaction inserted the tuple              *)
(*   seq   the next value of the id SERIAL sequence                        *)
(*   pc    the position of instance i inside seed_levels                   *)

Instances ==
    1..NumInstances

NoTx ==
    0

None ==
    "None"

Engine ==
    "Engine"

\* the VALUES list of the INSERT statement (the typographic apostrophe of
\* row 2 is written as an ASCII one)
LevelValues ==
    << [level_number |-> 1, name |-> "The Data Detective",
        description |-> "Inspect and understand messy data",
        badge_name |-> "Data Detective"],
       [level_number |-> 2, name |-> "The Janitor's Revenge",
        description |-> "Clean missing values and duplicates",
        badge_name |-> "Data Janitor"],
       [level_number |-> 3, name |-> "The Filter Wizard",
        description |-> "Filter and index data safely",
        badge_name |-> "Filter Wizard"],
       [level_number |-> 4, name |-> "The String Surgeon",
        description |-> "Fix strings and dates",
        badge_name |-> "String Surgeon"],
       [level_number |-> 5, name |-> "The Join Assassin",
        description |-> "Join datasets without explosions",
        badge_name |-> "Join Assassin"],
       [level_number |-> 6, name |-> "The Shape Shifter",
        description |-> "Reshape data correctly",
        badge_name |-> "Shape Shifter"],
       [level_number |-> 7, name |-> "The Data Alchemist",
        description |-> "End-to-end wrangling challenge",
        badge_name |-> "Data Alchemist"] >>

NotConfigured(route) ==
    [route |-> route, status |-> 500,
     detail |-> "Database not configured. Set DATABASE_URL."]

\* an exception of the driver that the handler does not catch
StorageError(route, kind) ==
    [route |-> route, status |-> 500, detail |-> kind]

SeedOk ==
    [route |-> "seed_levels", status |-> 200,
     body |-> [ok |-> TRUE, message |-> "Levels table created and seeded"]]

require_db_unchecked(e) ==
    TRUE

\* TRUE when require_db returns the engine, FALSE when it raises
require_db(e) ==
    e # None

\* POST /seed: require_db(), then db.begin() opens the transaction
seed_begin(i) ==
    /\ pc[i] = "idle"
    /\ calls < MaxSeedCalls
    /\ calls' = calls + 1
    /\ IF require_db(engine[i])
       THEN /\ pc' = [pc EXCEPT ![i] = "create"]
            /\ sresp' = [sresp EXCEPT ![i] = NoResp]
       ELSE /\ sresp' = [sresp EXCEPT ![i] = NotConfigured("seed_levels")]
            /\ UNCHANGED pc
    /\ UNCHANGED <<engine, tbl, rows, seq>>
    /\ UNCHANGED scoreVars

\* CREATE TABLE IF NOT EXISTS levels: a no-op when the relation is visible,
\* otherwise the relation (and its id sequence) is created inside the
\* open transaction
create_table(i) ==
    /\ pc[i] = "create"
    /\ tbl.committed \/ tbl.creator = NoTx
    /\ IF tbl.committed
       THEN UNCHANGED <<tbl, seq>>
       ELSE /\ tbl' = [committed |-> FALSE, creator |-> i]
            /\ seq' = 1
    /\ pc' = [pc EXCEPT ![i] = "insert"]
    /\ UNCHANGED <<engine, rows, sresp, calls>>
    /\ UNCHANGED scoreVars

\* CREATE TABLE IF NOT EXISTS while another open transaction has created
\* the relation: the relation is not visible, so the statement goes on to
\* create it and waits on the catalog's unique index entry
create_table_blocked(i) ==
    /\ pc[i] = "create"
    /\ ~tbl.committed
    /\ tbl.creator \notin {NoTx, i}
    /\ pc' = [pc EXCEPT ![i] = "blocked"]
    /\ UNCHANGED <<engine, tbl, rows, seq, sresp, calls>>
    /\ UNCHANGED scoreVars

\* the creating transaction committed: the waiting statement fails with a
\* unique violation on the catalog index, the with-block rolls back and
\* the exception leaves the handler (the creating transaction never rolls
\* back, since none of its statements can fail, so the waiting statement
\* never gets to proceed instead)
create_table_conflict(i) ==
    /\ pc[i] = "blocked"
    /\ tbl.committed
    /\ pc' = [pc EXCEPT ![i] = "idle"]
    /\ sresp' = [sresp EXCEPT ![i] = StorageError("seed_levels", "UniqueViolation")]
    /\ UNCHANGED <<engine, tbl, rows, seq, calls>>
    /\ UNCHANGED scoreVars

NewRowsNoConflictCheck(rs, i, s) ==
    {[id |-> s + n - 1, xid |-> i,
      level_number |-> LevelValues[n].level_number,
      name |-> LevelValues[n].name,
      description |-> LevelValues[n].description,
      badge_name |-> LevelValues[n].badge_name] : n \in 1..Len(LevelValues)}

\* INSERT ... ON CONFLICT (level_number) DO NOTHING: the tuples added to
\* rs by transaction i when the sequence stands at s; every proposed row
\* draws an id from the sequence, also the ones that are skipped
NewRows(rs, i, s) ==
    {[id |-> s + n - 1, xid |-> i,
      level_number |-> LevelValues[n].level_number,
      name |-> LevelValues[n].name,
      description |-> LevelValues[n].description,
      badge_name |-> LevelValues[n].badge_name] :
        n \in {m \in 1..Len(LevelValues) :
                 \A r \in rs : r.level_number # LevelValues[m].level_number}}

\* the INSERT statement; it waits while a conflicting tuple belongs to
\* another open transaction
insert_levels(i) ==
    /\ pc[i] = "insert"
    /\ \A r \in rows : r.xid \in {NoTx, i}
    /\ rows' = rows \cup NewRows(rows, i, seq)
    /\ seq' = seq + Len(LevelValues)
    /\ pc' = [pc EXCEPT ![i] = "commit"]
    /\ UNCHANGED <<engine, tbl, sresp, calls>>
    /\ UNCHANGED scoreVars

\* leaving the with-block commits; the handler returns its message
commit(i) ==
    /\ pc[i] = "commit"
    /\ rows' = {IF r.xid = i THEN [r EXCEPT !.xid = NoTx] ELSE r : r \in rows}
    /\ tbl' = IF tbl.creator = i
              THEN [committed |-> TRUE, creator |-> NoTx]
              ELSE tbl
    /\ pc' = [pc EXCEPT ![i] = "idle"]
    /\ sresp' = [sresp EXCEPT ![i] = SeedOk]
    /\ UNCHANGED <<engine, seq, calls>>
    /\ UNCHANGED scoreVars

Columns(r) ==
    [level_number |-> r.level_number, name |-> r.name,
     description |-> r.description, badge_name |-> r.badge_name]

\* ORDER BY level_number
RECURSIVE OrderByLevel(_)
OrderByLevel(rs) ==
    IF rs = {}
    THEN <<>>
    ELSE LET r == CHOOSE x \in rs : \A y \in rs : x.level_number <= y.level_number
         IN  <<Columns(r)>> \o OrderByLevel(rs \ {r})

SelectLevelsLenient(t, rs) ==
    [route |-> "get_levels", status |-> 200,
     body |-> OrderByLevel({r \in rs : r.xid = NoTx})]

\* the SELECT on a fresh connection sees committed data only
SelectLevels(t, rs) ==
    IF ~t.committed
    THEN StorageError("get_levels", "UndefinedTable")
    ELSE [route |-> "get_levels", status |-> 200,
          body |-> OrderByLevel({r \in rs : r.xid = NoTx})]

\* GET /levels
get_levels(i) ==
    /\ pc[i] = "idle"
    /\ sresp' = [sresp EXCEPT ![i] =
                    IF require_db(engine[i])
                    THEN SelectLevels(tbl, rows)
                    ELSE NotConfigured("get_levels")]
    /\ UNCHANGED <<engine, pc, tbl, rows, seq, calls>>
    /\ UNCHANGED scoreVars

\* GET /db-check
db_check(i) ==
    /\ pc[i] = "idle"
    /\ sresp' = [sresp EXCEPT ![i] =
                    IF engine[i] = None
                    THEN [route |-> "db_check", status |-> 200,
                          body |-> [db |-> "not configured"]]
                    ELSE [route |-> "db_check", status |-> 200,
                          body |-> [db |-> "connected", result |-> 1]]]
    /\ UNCHANGED <<engine, pc, tbl, rows, seq, calls>>
    /\ UNCHANGED scoreVars

----------------------------------------------------------------------------
(* Specifications.                                                         *)

DbIdle ==
    /\ engine = [i \in Instances |-> None]
    /\ pc = [i \in Instances |-> "idle"]
    /\ tbl = [committed |-> FALSE, creator |-> NoTx]
    /\ rows = {}
    /\ seq = 0
    /\ sresp = [i \in Instances |-> NoResp]
    /\ calls = 0

\* scoring: one request (level_number, answer) drawn from the input sets
InitScore ==
    /\ level_number \in LevelInputs
    /\ answer \in Answers
    /\ resp = NoResp
    /\ DbIdle

NextScore ==
    \/ get_level
    \/ submit_level

SpecScore ==
    InitScore /\ [][NextScore]_vars

\* persistence: an empty database, each instance configured or not
InitDb ==
    /\ level_number = 1
    /\ answer = <<>>
    /\ resp = NoResp
    /\ engine \in [Instances -> {None, Engine}]
    /\ pc = [i \in Instances |-> "idle"]
    /\ tbl = [committed |-> FALSE, creator |-> NoTx]
    /\ rows = {}
    /\ seq = 0
    /\ sresp = [i \in Instances |-> NoResp]
    /\ calls = 0

NextDb ==
    \E i \in Instances :
        \/ seed_begin(i)
        \/ create_table(i)
        \/ create_table_blocked(i)
        \/ create_table_conflict(i)
        \/ insert_levels(i)
        \/ commit(i)
        \/ get_levels(i)
        \/ db_check(i)

SpecDb ==
    InitDb /\ [][NextDb]_vars

\* seed calls issued one after another: a call starts only when no other
\* seed call is in progress
seed_begin_seq(i) ==
    /\ \A j \in Instances : pc[j] = "idle"
    /\ seed_begin(i)

NextSeq ==
    \E i \in Instances :
        \/ seed_begin_seq(i)
        \/ create_table(i)
        \/ insert_levels(i)
        \/ commit(i)
        \/ get_levels(i)
        \/ db_check(i)

SpecSeq ==
    InitDb /\ [][NextSeq]_vars

----------------------------------------------------------------------------
(* Properties of the scorer and the catalog routes, under SpecScore.       *)

Range(f) ==
    {f[i] : i \in DOMAIN f}

\* a submission that was scored
Submitted ==
    resp.route = "submit_level" /\ resp.status = 200

\* length of s without its leading and trailing whitespace, from the
\* positions of its first and last non-whitespace characters
TrimmedLen(s) ==
    LET solid == {i \in 1..Len(s) : s[i] \notin {" ", "\n"}}
    IN  IF solid = {}
        THEN 0
        ELSE (CHOOSE hi \in solid : \A i \in solid : i <= hi)
             - (CHOOSE lo \in solid : \A i \in solid : lo <= i) + 1

\* the minimum length the rubric prescribes for level n
RubricMinLen(n) ==
    IF n = 2 \/ n = 7 THEN 40 ELSE 25

\* ceil(k / 2) as the least n with 2n >= k
CeilHalf(k) ==
    CHOOSE n \in 0..k : 2 * n >= k /\ \A m \in 0..k : 2 * m >= k => n <= m

\* C1: for every defined level and every answer, passed is true exactly
\* when hits >= required_hits and the trimmed answer is at least as long
\* as the level's minimum length.
C1_PassedIffHitsAndLength ==
    Submitted =>
        (resp.body.passed
            <=> (/\ resp.body.hits >= resp.body.required_hits
                 /\ TrimmedLen(answer) >= RubricMinLen(level_number)))

\* a scored submission that passed, and its length is exactly the minimum
C1_Witness ==
    /\ Submitted
    /\ resp.body.passed
    /\ TrimmedLen(answer) = RubricMinLen(level_number)

\* C2: required_hits of a level with k patterns is max(2, ceil(k/2)),
\* whatever the answer.
C2_RequiredHits ==
    Submitted =>
        LET k == Len(CHALLENGES[level_number].must_have)
        IN  resp.body.required_hits = (IF CeilHalf(k) > 2 THEN CeilHalf(k) ELSE 2)

\* a level with two patterns was scored: ceil(k/2) = 1 and the floor 2 applies
C2_Witness ==
    /\ Submitted
    /\ Len(CHALLENGES[level_number].must_have) = 2
    /\ resp.body.required_hits = 2
    /\ answer # <<>>

\* C3: the minimum length is 40 for levels 2 and 7 and 25 otherwise, it is
\* compared with the trimmed length, and a trimmed answer below it never
\* passes, whatever it matches.
C3_MinLengthOnTrimmed ==
    Submitted =>
        LET min == IF level_number \in {2, 7} THEN 40 ELSE 25
            fb == Range(resp.body.feedback)
        IN  /\ (MsgShort(min) \in fb) <=> (TrimmedLen(answer) < min)
            /\ \A other \in {25, 40} \ {min} : MsgShort(other) \notin fb
            /\ (TrimmedLen(answer) < min) => ~resp.body.passed

\* on level 2 or 7: enough hits, 40 characters or more before trimming,
\* fewer after, and the verdict is a fail
C3_Witness ==
    /\ Submitted
    /\ level_number \in {2, 7}
    /\ resp.body.hits >= resp.body.required_hits
    /\ Len(answer) >= 40
    /\ TrimmedLen(answer) < 40
    /\ ~resp.body.passed

\* C4: get_level and submit_level answer 404 without a challenge or a
\* verdict exactly for the level numbers outside 1..7.
C4_NotFoundIffUndefined ==
    resp.route \in {"get_level", "submit_level"} =>
        /\ (resp.status = 404) <=> (level_number \notin 1..7)
        /\ (resp.status = 404) => DOMAIN resp = {"route", "status", "detail"}
        /\ (level_number \in 1..7) => (resp.status = 200 /\ "body" \in DOMAIN resp)

\* a submission to an undefined level was answered 404
C4_Witness ==
    /\ resp.route = "submit_level"
    /\ level_number > 7
    /\ answer # <<>>
    /\ resp.status = 404

\* C8 as stated: when the length check fails but hits suffice, the
\* feedback holds both the too-short and the congratulatory message.
C8_ShortfallWithCongratulation ==
    (/\ Submitted
     /\ TrimmedLen(answer) < RubricMinLen(level_number)
     /\ resp.body.hits >= resp.body.required_hits)
        => (/\ MsgShort(RubricMinLen(level_number)) \in Range(resp.body.feedback)
            /\ MsgNice \in Range(resp.body.feedback))

\* C8 amended: feedback is the too-short message, then the
\* mention-more message, then the congratulatory message, the last one
\* only when the answer passed; it never accompanies a shortfall message.
C8_FeedbackOrder ==
    Submitted =>
        LET min == RubricMinLen(level_number)
            short == TrimmedLen(answer) < min
            few == resp.body.hits < resp.body.required_hits
        IN  /\ resp.body.feedback =
                   (IF short THEN <<MsgShort(min)>> ELSE <<>>)
                   \o (IF few THEN <<MsgMore>> ELSE <<>>)
                   \o (IF ~short /\ ~few THEN <<MsgNice>> ELSE <<>>)
            /\ (MsgNice \in Range(resp.body.feedback)) <=> resp.body.passed

\* the length check failed, hits sufficed, and the feedback is the
\* too-short message alone
C8_Witness ==
    /\ Submitted
    /\ TrimmedLen(answer) < RubricMinLen(level_number)
    /\ resp.body.hits >= resp.body.required_hits
    /\ resp.body.feedback = <<MsgShort(RubricMinLen(level_number))>>

\* C9: a submission to a defined level is always scored, and the empty
\* answer gets hits = 0, the too-short message and passed = false.
C9_NoErrorAndEmptyFails ==
    (resp.route = "submit_level" /\ level_number \in 1..7) =>
        /\ resp.status = 200
        /\ resp.body.hits \in 0..Len(CHALLENGES[level_number].must_have)
        /\ (answer = <<>>) =>
              /\ resp.body.hits = 0
              /\ MsgShort(RubricMinLen(level_number)) \in Range(resp.body.feedback)
              /\ ~resp.body.passed

\* the empty answer was scored on a defined level
C9_Witness ==
    /\ Submitted
    /\ answer = <<>>
    /\ resp.body.hits = 0

----------------------------------------------------------------------------
(* Properties of the persistence routes.                                   *)

CommittedRows ==
    {r \in rows : r.xid = NoTx}

\* exactly one row per level number 1..7, with the canonical columns
SevenLevels(rs) ==
    /\ Cardinality(rs) = 7
    /\ {r.level_number : r \in rs} = 1..7
    /\ \A r \in rs : \E n \in 1..7 :
           /\ LevelValues[n].level_number = r.level_number
           /\ LevelValues[n].name = r.name
           /\ LevelValues[n].description = r.description
           /\ LevelValues[n].badge_name = r.badge_name

\* C5 (SpecSeq): after one or more seed calls in a row the table holds
\* exactly the seven rows, no seed call of a configured instance fails,
\* and once the table is there no later step changes its rows.
C5_SeedIdempotent ==
    /\ [](/\ (tbl.committed \/ \E i \in Instances : sresp[i] = SeedOk)
                => (tbl.committed /\ SevenLevels(CommittedRows))
          /\ tbl.committed => rows = CommittedRows
          /\ \A i \in Instances :
                (engine[i] = Engine /\ sresp[i].route = "seed_levels")
                    => sresp[i] = SeedOk)
    /\ [][tbl.committed => rows' = rows]_vars

\* two seed calls have run to completion
C5_Witness ==
    /\ seq = 1 + 2 * 7
    /\ \A i \in Instances : pc[i] = "idle"
    /\ \E i \in Instances : sresp[i] = SeedOk
    /\ SevenLevels(rows)

\* C6 (SpecDb): under every interleaving of concurrent seed calls each
\* call completes without a duplicate-key error and the table ends with
\* exactly one row per level number.
C6_ConcurrentSeedSafe ==
    /\ \A i \in Instances :
          (engine[i] = Engine /\ sresp[i].route = "seed_levels")
              => sresp[i] = SeedOk
    /\ tbl.committed => SevenLevels(CommittedRows)

\* C7 (SpecDb): an instance without a database never enters storage: its
\* seed_levels and get_levels answer the not-configured error and leave
\* the database as it is, and its db_check answers {db: "not configured"}.
C7_NotConfigured ==
    /\ [](\A i \in Instances : engine[i] = None =>
            /\ pc[i] = "idle"
            /\ sresp[i].route \in {"seed_levels", "get_levels"} =>
                  /\ sresp[i].status = 500
                  /\ sresp[i].detail = "Database not configured. Set DATABASE_URL."
            /\ sresp[i].route = "db_check" =>
                  /\ sresp[i].status = 200
                  /\ sresp[i].body = [db |-> "not configured"])
    /\ [][\A i \in Instances :
            (engine[i] = None /\ sresp'[i] # sresp[i])
                => UNCHANGED <<tbl, rows, seq, pc>>]_vars

\* one unconfigured instance answered a seed call, another a db_check
C7_Witness ==
    \E i, j \in Instances :
        /\ engine[i] = None
        /\ engine[j] = None
        /\ sresp[i] = NotConfigured("seed_levels")
        /\ sresp[j].route = "db_check"
        /\ sresp[j].body.db = "not configured"

\* C10 (SpecDb): get_levels answers a row list only once a seed call has
\* committed the table, and then the seven rows in ascending order; the
\* table becomes visible only by a seed commit, and get_levels before
\* that ends in the storage error, never in an empty list.
C10_ListOnlyAfterSeed ==
    /\ [](\A i \in Instances :
            (sresp[i].route = "get_levels" /\ sresp[i].status = 200) =>
                /\ tbl.committed
                /\ sresp[i].body = LevelValues)
    /\ [][(~tbl.committed /\ tbl.committed') =>
             \E i \in Instances :
                 pc[i] = "commit" /\ pc'[i] = "idle" /\ sresp'[i] = SeedOk]_vars
    /\ [][\A i \in Instances :
            (/\ engine[i] = Engine
             /\ ~tbl.committed
             /\ sresp'[i] # sresp[i]
             /\ sresp'[i].route = "get_levels")
                => (sresp'[i].status = 500 /\ sresp'[i].detail = "UndefinedTable")]_vars

\* one instance listed before the commit and got the storage error,
\* another listed after it and got the seven rows
C10_Witness ==
    \E i, j \in Instances :
        /\ sresp[i] = StorageError("get_levels", "UndefinedTable")
        /\ sresp[j].route = "get_levels"
        /\ sresp[j].status = 200
        /\ Len(sresp[j].body) = 7

====
